---- MODULE Spec2Model ----
(***************************************************************************)
(* Model of rules_analytics.py: a one-shot command-line tracker that loads *)
(* a JSON store of rule usage (migrating legacy shapes on load), applies   *)
(* one of write / rename / read, and persists the store.                   *)
(*                                                                         *)
(* Representation.                                                         *)
(*   - A string that the program inspects character by character (an agent *)
(*     name) is a sequence of one-character strings.  A rule filename is   *)
(*     only ever compared and used as a key, so it is a TLA+ string; the   *)
(*     empty string is the falsy filename.                                 *)
(*   - A timestamp string is the instant it denotes: 1..MaxTime are ISO    *)
(*     strings in the format the program writes; BadTime is a string that  *)
(*     datetime.fromisoformat rejects; NoVal is a field missing from a     *)
(*     record.                                                             *)
(*   - A JSON object used as a dict is a function; a JSON array is a       *)
(*     sequence.                                                           *)
(*                                                                         *)
(* Specifications.                                                         *)
(*   - Spec, SpecFresh: invocations one after the other, each one atomic.  *)
(*   - SpecLoad: the loader on every file shape.                           *)
(*   - SpecReport: the report of read on stores with records that parse    *)
(*     and that do not, with every filter and sort.                        *)
(*   - SpecKebab: to_kebab_case on every short string.                     *)
(*   - SpecProcs: two invocations side by side, the save in its steps.     *)
(***************************************************************************)
EXTENDS Integers, Sequences, FiniteSets, TLC

\* ---------------------------------------------------------------- bounds
MaxTime == 3        \* instants are 1..MaxTime
StartTime == 2      \* the clock at the first invocation; files hold 1..StartTime
MaxOps == 3         \* invocations per behaviour
MaxCount == 2       \* largest usageCount found in an initial file

\* A field that is missing from a JSON record.
NoVal == -1
\* A timestamp string that datetime.fromisoformat rejects.
BadTime == 0

Times == 1..MaxTime
FileTimes == 1..StartTime

MaxLen == 3         \* longest string given to to_kebab_case on its own

\* ------------------------------------------------------------ characters
Upper == {"A", "B"}
\* An uppercase letter that str.lower() leaves as it is, for instance U+1D400
\* MATHEMATICAL BOLD CAPITAL A: isupper() holds, lower() is the identity and
\* \w matches it. "M" stands for such a letter.
UpperNoLower == {"M"}
Letters == {"a", "b"} \cup Upper \cup UpperNoLower
Separators == {" ", "_", "/"}
Alphabet == Letters \cup Separators \cup {"-", ".", "!"}

\* str.lower() on one character
Lower(c) == IF c = "A" THEN "a" ELSE IF c = "B" THEN "b" ELSE c

\* \w of the re module: letters, digits and the underscore
IsWord(c) == c \in Letters \/ c = "_"

\* str.isupper() on one character
IsUpper(c) == c \in Upper \cup UpperNoLower

LowerAll(s) == [i \in 1..Len(s) |-> Lower(s[i])]

\* re.sub(r'[cls]+', '-', s): every maximal run of characters of cls becomes
\* one hyphen
RECURSIVE SubRuns(_, _)
SubRuns(s, cls) ==
    IF s = <<>> THEN <<>>
    ELSE IF Head(s) \in cls
         THEN IF Len(s) > 1 /\ s[2] \in cls
              THEN SubRuns(Tail(s), cls)
              ELSE <<"-">> \o SubRuns(Tail(s), cls)
         ELSE <<Head(s)>> \o SubRuns(Tail(s), cls)

\* re.sub(r'[^\w\.-]', '', s)
RemoveOther(s) == SelectSeq(s, LAMBDA c : IsWord(c) \/ c = "." \/ c = "-")

\* s.strip('-')
RECURSIVE StripLeft(_)
StripLeft(s) ==
    IF s # <<>> /\ Head(s) = "-" THEN StripLeft(Tail(s)) ELSE s

RECURSIVE StripRight(_)
StripRight(s) ==
    IF s # <<>> /\ s[Len(s)] = "-" THEN StripRight(SubSeq(s, 1, Len(s) - 1)) ELSE s

Strip(s) == StripRight(StripLeft(s))

to_kebab_case(s) ==
    Strip(SubRuns(RemoveOther(SubRuns(LowerAll(s), Separators)), {"-"}))

\* ------------------------------------------------------------- the store
\* The empty dict.
EmptyMap == [x \in {} |-> NoVal]

\* dict[k] = v
Put(f, k, v) == [x \in DOMAIN f \cup {k} |-> IF x = k THEN v ELSE f[x]]

\* del dict[k]
Del(f, k) == [x \in DOMAIN f \ {k} |-> f[x]]

\* The order in which a dict is iterated: one fixed order of its keys.
RECURSIVE KeyOrder(_)
KeyOrder(S) ==
    IF S = {} THEN <<>>
    ELSE LET k == CHOOSE x \in S : TRUE IN <<k>> \o KeyOrder(S \ {k})

\* dict.values()
Values(f) == LET ks == KeyOrder(DOMAIN f) IN [i \in 1..Len(ks) |-> f[ks[i]]]

\* list membership: x in xs
InSeq(x, xs) == \E i \in 1..Len(xs) : xs[i] = x

\* A usage record in canonical form: the three fields, no embedded agent.
AgentUsage(count, first, latest) ==
    [hasAgent |-> FALSE, agent |-> <<>>,
     usageCount |-> count, firstUsed |-> first, lastUsed |-> latest]

\* A rule entry in canonical form: a usage dict and previousNames, no
\* embedded filename.
RuleEntry(usage, prev) ==
    [hasFilename |-> FALSE, filename |-> "",
     usageIsList |-> FALSE, ulist |-> <<>>, usage |-> usage,
     hasPrev |-> TRUE, previousNames |-> prev]

\* A parsed JSON object whose "rules" field is the dict rules.
Store(rules) == [kind |-> "object", shape |-> "dict", list |-> <<>>, rules |-> rules]

\* {"rules": {}}
EmptyStore == Store(EmptyMap)

\* ---------------------------------------------------------------- loading
\* What needs_structure_cleanup does with one rule of the dict, in the
\* order of its tests: "true" (return True), "raise" (usage is a list,
\* which has no items()), or "next" (go on with the following rule).
CleanupOfRule(rule) ==
    IF rule.hasFilename THEN "true"
    ELSE IF rule.usageIsList THEN "raise"
    ELSE IF \E k \in DOMAIN rule.usage : rule.usage[k].hasAgent THEN "true"
    ELSE IF ~rule.hasPrev THEN "true"
    ELSE "next"

RECURSIVE CleanupScan(_)
CleanupScan(rs) ==
    IF rs = <<>> THEN "false"
    ELSE LET r == CleanupOfRule(Head(rs))
         IN IF r = "next" THEN CleanupScan(Tail(rs)) ELSE r

needs_structure_cleanup(data) ==
    IF data.shape # "dict" THEN "false" ELSE CleanupScan(Values(data.rules))

\* dict.get(field, default) on a field that may be missing
GetOr(v, default) == IF v = NoVal THEN default ELSE v

\* Mutant: the migration copies the source record with its agent field.
MigratedUsage_keeps_agent(u, now) ==
    [u EXCEPT !.usageCount = GetOr(@, 0), !.firstUsed = GetOr(@, now),
              !.lastUsed = GetOr(@, now)]

\* The usage record the migration stores for one source record.
MigratedUsage(u, now) ==
    AgentUsage(GetOr(u.usageCount, 0), GetOr(u.firstUsed, now), GetOr(u.lastUsed, now))

\* The loop over usage_items: a record with a non-empty agent is stored
\* under the normalized agent; a later record replaces an earlier one of
\* the same key.
RECURSIVE MigrateUsage(_, _)
MigrateUsage(items, now) ==
    IF items = <<>> THEN EmptyMap
    ELSE LET n == Len(items)
             u == items[n]
             rest == MigrateUsage(SubSeq(items, 1, n - 1), now)
         IN IF u.hasAgent /\ u.agent # <<>>
            THEN Put(rest, to_kebab_case(u.agent), MigratedUsage(u, now))
            ELSE rest

usage_items(rule) == IF rule.usageIsList THEN rule.ulist ELSE Values(rule.usage)

\* The entry the migration stores for one source rule.
MigratedRule(rule, now) ==
    RuleEntry(MigrateUsage(usage_items(rule), now),
              IF rule.hasPrev THEN rule.previousNames ELSE <<>>)

\* The loop over rules_data: a rule with a non-empty filename field is
\* stored under that filename.
RECURSIVE MigrateRules(_, _)
MigrateRules(rs, now) ==
    IF rs = <<>> THEN EmptyMap
    ELSE LET n == Len(rs)
             r == rs[n]
             rest == MigrateRules(SubSeq(rs, 1, n - 1), now)
         IN IF r.hasFilename /\ r.filename # ""
            THEN Put(rest, r.filename, MigratedRule(r, now))
            ELSE rest

rules_data(data) == IF data.shape = "list" THEN data.list ELSE Values(data.rules)

\* load_analytics(filepath) at clock `now`: the returned store, the file it
\* leaves behind and whether it migrated.
load_analytics(f, now) ==
    IF f.kind # "object"
    THEN [data |-> EmptyStore, file |-> f, migrated |-> FALSE]
    ELSE LET need == IF f.shape = "list" THEN "true" ELSE needs_structure_cleanup(f)
             new == Store(MigrateRules(rules_data(f), now))
         IN CASE need = "true"  -> [data |-> new, file |-> new, migrated |-> TRUE]
              [] need = "raise" -> [data |-> EmptyStore, file |-> f, migrated |-> FALSE]
              [] OTHER          -> [data |-> f, file |-> f, migrated |-> FALSE]

\* ------------------------------------------------------------------ write
\* datetime.fromisoformat(record[field]) succeeds
Parses(t) == t \in Times

\* Mutant: every record sets firstUsed as well as lastUsed.
write_resets_first(data, filename, agent, now) ==
    IF data.shape # "dict" THEN [store |-> data, status |-> "crash"]
    ELSE LET agent_key == to_kebab_case(agent)
             rule_entry == IF filename \in DOMAIN data.rules
                           THEN data.rules[filename]
                           ELSE RuleEntry(EmptyMap, <<>>)
             agent_usage == IF agent_key \in DOMAIN rule_entry.usage
                            THEN rule_entry.usage[agent_key]
                            ELSE AgentUsage(0, now, now)
             updated == [agent_usage EXCEPT !.usageCount = @ + 1, !.lastUsed = now,
                                            !.firstUsed = now]
             entry == [rule_entry EXCEPT !.usage = Put(@, agent_key, updated)]
         IN IF agent_usage.usageCount = NoVal
            THEN [store |-> data, status |-> "crash"]
            ELSE [store |-> Store(Put(data.rules, filename, entry)), status |-> "ok"]

\* The write branch on the loaded store: the new store and how the process
\* ends.  Without a rules dict the lookup raises (KeyError, AttributeError);
\* a record without usageCount raises KeyError at the increment.  A process
\* that raises saves nothing.
write(data, filename, agent, now) ==
    IF data.shape # "dict" THEN [store |-> data, status |-> "crash"]
    ELSE LET agent_key == to_kebab_case(agent)
             rule_entry == IF filename \in DOMAIN data.rules
                           THEN data.rules[filename]
                           ELSE RuleEntry(EmptyMap, <<>>)
             agent_usage == IF agent_key \in DOMAIN rule_entry.usage
                            THEN rule_entry.usage[agent_key]
                            ELSE AgentUsage(0, now, now)
             updated == [agent_usage EXCEPT !.usageCount = @ + 1, !.lastUsed = now]
             entry == [rule_entry EXCEPT !.usage = Put(@, agent_key, updated)]
         IN IF agent_usage.usageCount = NoVal
            THEN [store |-> data, status |-> "crash"]
            ELSE [store |-> Store(Put(data.rules, filename, entry)), status |-> "ok"]

\* ----------------------------------------------------------------- rename
\* Mutant: the merge keeps the later firstUsed.
MergedUsage_later(old_usage, new_usage) ==
    [new_usage EXCEPT
        !.firstUsed = IF old_usage.firstUsed > @ THEN old_usage.firstUsed ELSE @,
        !.usageCount = @ + old_usage.usageCount,
        !.lastUsed = IF old_usage.lastUsed > @ THEN old_usage.lastUsed ELSE @]

\* The record the merge loop leaves in new_name's usage for an agent that
\* both rules have.
MergedUsage(old_usage, new_usage) ==
    [new_usage EXCEPT
        !.firstUsed = IF old_usage.firstUsed < @ THEN old_usage.firstUsed ELSE @,
        !.usageCount = @ + old_usage.usageCount,
        !.lastUsed = IF old_usage.lastUsed > @ THEN old_usage.lastUsed ELSE @]

\* new_name's usage after the merge loop.
merge_usage(old, new) ==
    [k \in DOMAIN old \cup DOMAIN new |->
        IF k \notin DOMAIN new THEN old[k]
        ELSE IF k \notin DOMAIN old THEN new[k]
        ELSE MergedUsage(old[k], new[k])]

\* The merge loop raises on an agent of both rules with a timestamp that
\* does not parse or a missing field.
MergeRaises(old, new) ==
    \E k \in DOMAIN old \cap DOMAIN new :
        \/ ~Parses(old[k].firstUsed) \/ ~Parses(new[k].firstUsed)
        \/ ~Parses(old[k].lastUsed) \/ ~Parses(new[k].lastUsed)
        \/ old[k].usageCount = NoVal \/ new[k].usageCount = NoVal

\* Mutant: the name is appended whether or not it is there already.
AppendNew_always(xs, x) == Append(xs, x)

\* xs.append(x) if x not in xs
AppendNew(xs, x) == IF InSeq(x, xs) THEN xs ELSE Append(xs, x)

RECURSIVE AppendAllNew(_, _)
AppendAllNew(xs, ys) ==
    IF ys = <<>> THEN xs ELSE AppendAllNew(AppendNew(xs, Head(ys)), Tail(ys))

PrevOf(entry) == IF entry.hasPrev THEN entry.previousNames ELSE <<>>

\* Mutant: the previous names of the old rule are not carried over.
merge_entry_forgets(old_entry, new_entry, old_name) ==
    [new_entry EXCEPT
        !.usage = merge_usage(old_entry.usage, new_entry.usage),
        !.hasPrev = TRUE,
        !.previousNames = AppendNew(PrevOf(new_entry), old_name)]

\* The entry under new_name when new_name already exists.
merge_entry(old_entry, new_entry, old_name) ==
    [new_entry EXCEPT
        !.usage = merge_usage(old_entry.usage, new_entry.usage),
        !.hasPrev = TRUE,
        !.previousNames = AppendAllNew(AppendNew(PrevOf(new_entry), old_name),
                                       PrevOf(old_entry))]

\* The entry under new_name when new_name does not exist yet.
move_entry(old_entry, old_name) ==
    [old_entry EXCEPT
        !.hasPrev = TRUE,
        !.previousNames = AppendNew(PrevOf(old_entry), old_name)]

\* Mutant: the old entry is not deleted.
remove_nothing(rules, old_name) == rules

\* del analytics_data["rules"][old_name]
remove_old(rules, old_name) == Del(rules, old_name)

\* The rename of a rule that exists.
rename_existing(data, old_name, new_name) ==
    IF new_name \in DOMAIN data.rules
    THEN IF MergeRaises(data.rules[old_name].usage, data.rules[new_name].usage)
         THEN [store |-> data, status |-> "crash"]
         ELSE [store |-> Store(remove_old(
                   Put(data.rules, new_name,
                       merge_entry(data.rules[old_name], data.rules[new_name], old_name)),
                   old_name)),
               status |-> "ok"]
    ELSE [store |-> Store(remove_old(
              Put(data.rules, new_name, move_entry(data.rules[old_name], old_name)),
              old_name)),
          status |-> "ok"]

\* Mutant: no test that old_name exists; an unknown rule counts as an empty
\* one.
rename_unchecked(data, old_name, new_name) ==
    IF data.shape # "dict" THEN [store |-> data, status |-> "crash"]
    ELSE IF old_name \notin DOMAIN data.rules
    THEN rename_existing(Store(Put(data.rules, old_name, RuleEntry(EmptyMap, <<>>))),
                         old_name, new_name)
    ELSE rename_existing(data, old_name, new_name)

\* The rename branch on the loaded store: without a rules dict the lookup
\* raises; an unknown old_name ends the process with exit status 1.
rename(data, old_name, new_name) ==
    IF data.shape # "dict" THEN [store |-> data, status |-> "crash"]
    ELSE IF old_name \notin DOMAIN data.rules
    THEN [store |-> data, status |-> "notfound"]
    ELSE rename_existing(data, old_name, new_name)

\* ------------------------------------------------------------------- read
\* Length of the common run of a and b that starts at a[i] and b[j] and
\* stays within a[..ahi] and b[..bhi].
RECURSIVE RunLen(_, _, _, _, _, _)
RunLen(a, b, i, j, ahi, bhi) ==
    IF i > ahi \/ j > bhi \/ a[i] # b[j] THEN 0
    ELSE 1 + RunLen(a, b, i + 1, j + 1, ahi, bhi)

\* SequenceMatcher.find_longest_match: the longest common block of
\* a[alo..ahi] and b[blo..bhi]; of the longest ones the one that starts
\* earliest in a, and of those the one that starts earliest in b.
find_longest_match(a, b, alo, ahi, blo, bhi) ==
    LET starts == (alo..ahi) \X (blo..bhi)
        size(p) == RunLen(a, b, p[1], p[2], ahi, bhi)
        best == CHOOSE p \in starts :
                    \A q \in starts :
                        \/ size(q) < size(p)
                        \/ size(q) = size(p) /\ p[1] < q[1]
                        \/ size(q) = size(p) /\ p[1] = q[1] /\ p[2] <= q[2]
    IN [i |-> best[1], j |-> best[2], k |-> size(best)]

\* Sum of the sizes of SequenceMatcher.get_matching_blocks: the longest
\* block, and recursively the blocks to its left and to its right.
RECURSIVE matching_size(_, _, _, _, _, _)
matching_size(a, b, alo, ahi, blo, bhi) ==
    IF alo > ahi \/ blo > bhi THEN 0
    ELSE LET m == find_longest_match(a, b, alo, ahi, blo, bhi)
         IN IF m.k = 0 THEN 0
            ELSE m.k + matching_size(a, b, alo, m.i - 1, blo, m.j - 1)
                     + matching_size(a, b, m.i + m.k, ahi, m.j + m.k, bhi)

\* SequenceMatcher(None, a.lower(), b.lower()).ratio() > 0.7, the ratio being
\* 2 * matches / (len(a) + len(b)), and 1.0 for two empty strings.
similar(a, b) ==
    LET x == LowerAll(a)
        y == LowerAll(b)
        matches == matching_size(x, y, 1, Len(x), 1, Len(y))
    IN IF Len(x) + Len(y) = 0 THEN TRUE
       ELSE 20 * matches > 7 * (Len(x) + Len(y))

\* No --filter argument (or an empty one).
NoFilter == <<>>

\* is_match of one agent key
is_match(filter, agent_key) ==
    filter = NoFilter \/ similar(to_kebab_case(filter), agent_key)

\* The per-rule variables before the loop over the agents.
NoSummary(filter) ==
    [total_usage |-> 0, last_used |-> NoVal, last_agent |-> <<>>, first_used |-> NoVal,
     agent_match_found |-> filter = NoFilter, status |-> "ok"]

\* One pass of the loop over the agents of a rule. A missing field raises
\* KeyError; a timestamp that does not parse raises ValueError, which is
\* caught and ends the pass for this agent after its count was added.
summary_step(acc, agent_key, u, filter) ==
    IF acc.status = "crash" THEN acc
    ELSE IF u.usageCount = NoVal THEN [acc EXCEPT !.status = "crash"]
    ELSE IF ~is_match(filter, agent_key) THEN acc
    ELSE LET counted == [acc EXCEPT !.agent_match_found = TRUE,
                                    !.total_usage = @ + u.usageCount]
         IN IF u.lastUsed = NoVal THEN [acc EXCEPT !.status = "crash"]
            ELSE IF ~Parses(u.lastUsed) THEN counted
            ELSE IF u.firstUsed = NoVal THEN [acc EXCEPT !.status = "crash"]
            ELSE IF ~Parses(u.firstUsed) THEN counted
            ELSE [counted EXCEPT
                     !.last_used = IF @ = NoVal \/ u.lastUsed > @ THEN u.lastUsed ELSE @,
                     !.last_agent = IF acc.last_used = NoVal \/ u.lastUsed > acc.last_used
                                    THEN agent_key ELSE @,
                     !.first_used = IF @ = NoVal \/ u.firstUsed < @ THEN u.firstUsed ELSE @]

\* The loop over the agents of a rule, in the order of the dict.
RECURSIVE summary_loop(_, _, _, _)
summary_loop(acc, keys, usage, filter) ==
    IF keys = <<>> THEN acc
    ELSE summary_loop(summary_step(acc, Head(keys), usage[Head(keys)], filter),
                      Tail(keys), usage, filter)

rule_summary(rule_entry, filter) ==
    IF rule_entry.usageIsList THEN [NoSummary(filter) EXCEPT !.status = "crash"]
    ELSE summary_loop(NoSummary(filter), KeyOrder(DOMAIN rule_entry.usage),
                      rule_entry.usage, filter)

\* The entry of display_data for a rule.
display_item(filename, rule_entry, s) ==
    [filename |-> filename, total_usage |-> s.total_usage, last_agent |-> s.last_agent,
     last_used |-> s.last_used, first_used |-> s.first_used,
     previous_names |-> PrevOf(rule_entry)]

\* display_data before the sort: the rules, in the order of the dict, that
\* have a matching agent and a parsed date.
RECURSIVE display_data(_, _, _)
display_data(names, rules, filter) ==
    IF names = <<>> THEN <<>>
    ELSE LET f == Head(names)
             s == rule_summary(rules[f], filter)
         IN IF s.agent_match_found /\ s.last_used # NoVal
            THEN <<display_item(f, rules[f], s)>> \o display_data(Tail(names), rules, filter)
            ELSE display_data(Tail(names), rules, filter)

\* The order of the rule names as strings.
NameOrder == <<"", "r1", "r2", "r3">>

NameRank(f) == CHOOSE i \in 1..Len(NameOrder) : NameOrder[i] = f

\* x goes before y under --sort: by name, by first_used, or by last_used
\* with the latest first.
Precedes(x, y, sort) ==
    IF sort = "name" THEN NameRank(x.filename) < NameRank(y.filename)
    ELSE IF sort = "first" THEN x.first_used < y.first_used
    ELSE x.last_used > y.last_used

\* list.sort is stable: each item goes behind the items it does not precede.
RECURSIVE insert_sorted(_, _, _)
insert_sorted(sorted, x, sort) ==
    IF sorted = <<>> THEN <<x>>
    ELSE IF Precedes(x, Head(sorted), sort) THEN <<x>> \o sorted
    ELSE <<Head(sorted)>> \o insert_sorted(Tail(sorted), x, sort)

RECURSIVE sort_display(_, _, _)
sort_display(done, items, sort) ==
    IF items = <<>> THEN done
    ELSE sort_display(insert_sorted(done, Head(items), sort), Tail(items), sort)

\* The read branch: a missing, null or empty rules field ends the process
\* with "No analytics data found."; a number has no items(); otherwise the
\* table of the rules is built, sorted and printed.
read(data, filter, sort) ==
    IF data.shape = "number" THEN [store |-> data, status |-> "crash", report |-> <<>>]
    ELSE IF data.shape \in {"missing", "null"} \/ DOMAIN data.rules = {}
    THEN [store |-> data, status |-> "nodata", report |-> <<>>]
    ELSE IF \E f \in DOMAIN data.rules : rule_summary(data.rules[f], filter).status = "crash"
    THEN [store |-> data, status |-> "crash", report |-> <<>>]
    ELSE [store |-> data, status |-> "ok",
          report |-> sort_display(<<>>, display_data(KeyOrder(DOMAIN data.rules),
                                                     data.rules, filter), sort)]

\* ------------------------------------------------------------ the program
VARIABLES
    file,     \* rules_analytics.json as persisted
    now,      \* the clock: current_date of the latest invocation
    before,   \* the file as the latest invocation found it
    loaded,   \* what load_analytics returned to the latest invocation
    store,    \* analytics_data when the latest invocation ended
    last,     \* the latest invocation: subcommand, arguments, how it ended
    ops,      \* number of invocations so far
    gone,     \* the old names of the successful renames so far
    migrations,  \* number of loads so far that migrated the file
    prior,    \* the names of the invocation before the latest one, if it was a
              \* rename that ended normally
    writes,   \* number of write invocations so far that ended normally
    chain,    \* a string followed by its successive normalizations
    report,   \* the table printed by the latest invocation, if it was a read
    pc,       \* where each of two concurrent invocations is
    cmd,      \* the command line of each
    seen,     \* what each found when it read the file
    result,   \* what its command made of the store it loaded
    fsize,    \* length of the file in characters, kept while invocations run
              \* side by side
    closed,   \* the invocations that have saved, in the order they finished
    early,    \* a save started before every invocation had loaded
    overlap   \* a save started while another was under way

procvars == <<pc, cmd, seen, result, fsize, closed, early, overlap>>

vars == <<file, now, before, loaded, store, last, ops, gone, migrations, prior, writes,
          chain, report, procvars>>

\* The rule filenames and agent names given on the command line.
RuleNames == {"r1", "r2", "r3"}
AgentArgs == {<<"A">>, <<"a">>, <<"b", " ">>}

\* ------------------------------------------------------ persisted files
Absent == [kind |-> "absent", shape |-> "missing", list |-> <<>>, rules |-> EmptyMap]
Garbage == [Absent EXCEPT !.kind = "garbage"]
NonObject == [Absent EXCEPT !.kind = "nonobject"]
\* An object whose rules field is missing, null or a number.
NoRules(shape) == [Absent EXCEPT !.kind = "object", !.shape = shape]
\* Legacy shape A: rules is a list.
ListFile(rs) == [kind |-> "object", shape |-> "list", list |-> rs, rules |-> EmptyMap]

\* A usage record as a file may hold it: with or without the agent field
\* and with any of the three fields missing.
FileUsage(agent, count, first, latest) ==
    [hasAgent |-> agent # <<>>, agent |-> agent,
     usageCount |-> count, firstUsed |-> first, lastUsed |-> latest]

\* A rule record as a file may hold it; filename "-" stands for no filename
\* field, prev <<"-">> for no previousNames field.
FileRule(filename, usageIsList, us, prev) ==
    [hasFilename |-> filename # "-", filename |-> IF filename = "-" THEN "" ELSE filename,
     usageIsList |-> usageIsList,
     ulist |-> IF usageIsList THEN us ELSE <<>>,
     usage |-> IF usageIsList THEN EmptyMap ELSE us,
     hasPrev |-> prev # <<"-">>, previousNames |-> IF prev = <<"-">> THEN <<>> ELSE prev]

\* The timestamps a file written before StartTime can hold for one record.
FileStamps ==
    {p \in (FileTimes \cup {NoVal}) \X (FileTimes \cup {NoVal}) :
        p[1] = NoVal \/ p[2] = NoVal \/ p[1] <= p[2]}

\* The usage records of the files considered: every combination of agent
\* field, count and timestamps.
FileUsages ==
    {FileUsage(a, c, p[1], p[2]) :
        a \in AgentArgs \cup {<<>>}, c \in {NoVal} \cup 1..MaxCount, p \in FileStamps}

\* A second record next to the first: same shape, fixed values.
FileUsages2 == {FileUsage(a, 1, 1, 1) : a \in {<<"a">>, <<"b", " ">>, <<>>}}

\* The usage fields considered: a list of up to two records, or a dict of
\* up to two keys.
UsageLists ==
    {<<>>} \cup {<<u>> : u \in FileUsages}
           \cup {<<u, v>> : u \in FileUsages, v \in FileUsages2}

UsageDicts ==
    {EmptyMap} \cup {Put(EmptyMap, <<"a">>, u) : u \in FileUsages}
               \cup {Put(Put(EmptyMap, <<"a">>, u), <<"b">>, v) :
                        u \in FileUsages, v \in FileUsages2}

FileRules ==
    {FileRule(f, TRUE, us, p) :
        f \in {"-", "", "r1"}, us \in UsageLists, p \in {<<"-">>, <<"r3">>}}
    \cup
    {FileRule(f, FALSE, us, p) :
        f \in {"-", "", "r1"}, us \in UsageDicts, p \in {<<"-">>, <<"r3">>}}

\* A second rule next to the first.
FileRules2 ==
    {FileRule(f, FALSE, Put(EmptyMap, <<"a">>, FileUsage(a, 1, 1, 1)), p) :
        f \in {"-", "r1", "r2"}, a \in {<<>>, <<"A">>}, p \in {<<"-">>, <<>>}}

\* Every file the loader is examined on.
LoadFiles ==
    {Absent, Garbage, NonObject, NoRules("missing"), NoRules("null"), NoRules("number")}
    \cup {ListFile(<<>>), EmptyStore}
    \cup {ListFile(<<r>>) : r \in FileRules}
    \cup {Store(Put(EmptyMap, "r1", r)) : r \in FileRules}
    \cup {ListFile(<<r, q>>) : r \in FileRules2, q \in FileRules2}
    \cup {Store(Put(Put(EmptyMap, "r1", r), "r2", q)) : r \in FileRules2, q \in FileRules2}

\* The files the program starts from in Spec: no file, files that do not
\* hold a store, the two legacy shapes, and canonical stores (one of them
\* with a timestamp that does not parse).
U(count, first, latest) == AgentUsage(count, first, latest)
A1 == <<"a">>
B1 == <<"b">>

StartFiles ==
    {Absent, Garbage, NoRules("missing"), NoRules("number"),
     \* shape A, complete records; two agent names with the same key
     ListFile(<<FileRule("r1", TRUE,
                         <<FileUsage(<<"A">>, 2, 1, 2), FileUsage(<<"b", " ">>, 1, 1, 1)>>,
                         <<"-">>)>>),
     \* shape A, a record without firstUsed
     ListFile(<<FileRule("r1", TRUE, <<FileUsage(<<"A">>, 1, NoVal, 1)>>, <<"-">>)>>),
     \* a dict store from before previousNames was introduced
     Store(Put(EmptyMap, "r1",
               FileRule("-", FALSE, Put(EmptyMap, A1, U(2, 1, 2)), <<"-">>))),
     \* canonical stores
     Store(Put(EmptyMap, "r1", RuleEntry(Put(EmptyMap, A1, U(1, 1, 1)), <<>>))),
     Store(Put(Put(EmptyMap, "r1", RuleEntry(Put(EmptyMap, A1, U(2, 1, 2)), <<"r3">>)),
               "r2", RuleEntry(Put(Put(EmptyMap, A1, U(1, 2, 2)), B1, U(1, 1, 1)), <<>>))),
     Store(Put(Put(EmptyMap, "r1", RuleEntry(Put(EmptyMap, A1, U(1, BadTime, 1)), <<>>)),
               "r2", RuleEntry(Put(EmptyMap, A1, U(1, 1, 1)), <<>>)))}

NoRename == [name |-> "", new |-> ""]

NoOp == [op |-> "none", name |-> "", new |-> "", agent |-> <<>>,
         filter |-> NoFilter, sort |-> "last", status |-> "none", migrated |-> FALSE]

InitFrom(files) ==
    /\ file \in files
    /\ now = StartTime
    /\ before = file
    /\ loaded = EmptyStore
    /\ store = EmptyStore
    /\ last = NoOp
    /\ ops = 0
    /\ gone = {}
    /\ migrations = 0
    /\ prior = NoRename
    /\ writes = 0
    /\ report = <<>>

\* The invocations that run side by side.
Procs == {"p1", "p2"}

NoCommand == [op |-> "none", name |-> "", new |-> "", agent |-> <<>>]

\* Length of json.dumps(data, indent=2) for a store whose rule names have
\* two characters and whose timestamps have the 25 characters of
\* current_date.
Digits(n) == IF n < 10 THEN 1 ELSE 2

RECURSIVE UsageSize(_, _)
UsageSize(usage, keys) ==
    IF keys = {} THEN 0
    ELSE LET k == CHOOSE x \in keys : TRUE
         IN 153 + Len(k) + Digits(usage[k].usageCount) + UsageSize(usage, keys \ {k})

RuleSize(entry) ==
    64 + (IF DOMAIN entry.usage = {} THEN 0
          ELSE 6 + UsageSize(entry.usage, DOMAIN entry.usage))
       + (IF entry.previousNames = <<>> THEN 0 ELSE 6 + 14 * Len(entry.previousNames))

RECURSIVE RulesSize(_, _)
RulesSize(rules, names) ==
    IF names = {} THEN 0
    ELSE LET f == CHOOSE x \in names : TRUE
         IN RuleSize(rules[f]) + RulesSize(rules, names \ {f})

JsonSize(data) ==
    IF data.kind # "object" THEN 0
    ELSE IF DOMAIN data.rules = {} THEN 17
    ELSE 19 + RulesSize(data.rules, DOMAIN data.rules)

\* No concurrent invocation has started.
ProcsIdle ==
    /\ pc = [p \in Procs |-> "idle"]
    /\ cmd = [p \in Procs |-> NoCommand]
    /\ seen = [p \in Procs |-> "nothing"]
    /\ result = [p \in Procs |-> [store |-> EmptyStore, status |-> "none"]]
    /\ closed = <<>>
    /\ early = FALSE
    /\ overlap = FALSE

\* The invocations run one after the other: the length of the file is not
\* followed.
OneByOne == ProcsIdle /\ fsize = 0

\* No key is being normalized on its own.
NoChain == chain = <<>>

Init == InitFrom(StartFiles) /\ NoChain /\ OneByOne

\* The clock of an invocation: it never runs backwards, and two invocations
\* can fall into the same second.
Clock == {t \in Times : now <= t /\ t <= now + 1}

\* One invocation: load (with its write-through), the subcommand, and the
\* save of a subcommand that ends normally.
Invoke(t, ld, r, saves, info) ==
    /\ ops < MaxOps
    /\ now' = t
    /\ before' = file
    /\ loaded' = ld.data
    /\ store' = r.store
    /\ file' = IF saves /\ r.status = "ok" THEN r.store ELSE ld.file
    /\ last' = [info EXCEPT !.status = r.status, !.migrated = ld.migrated]
    /\ ops' = ops + 1
    /\ gone' = IF info.op = "rename" /\ r.status = "ok" THEN gone \cup {info.name} ELSE gone
    /\ migrations' = IF ld.migrated THEN migrations + 1 ELSE migrations
    /\ prior' = IF last.op = "rename" /\ last.status = "ok"
                THEN [name |-> last.name, new |-> last.new]
                ELSE NoRename
    /\ writes' = IF info.op = "write" /\ r.status = "ok" THEN writes + 1 ELSE writes
    /\ report' = IF info.op = "read" THEN r.report ELSE <<>>
    /\ UNCHANGED <<chain, procvars>>

\* write --filename filename --by agent
Write ==
    \E filename \in RuleNames, agent \in AgentArgs, t \in Clock :
        LET ld == load_analytics(file, t)
        IN Invoke(t, ld, write(ld.data, filename, agent, t), TRUE,
                  [NoOp EXCEPT !.op = "write", !.name = filename, !.agent = agent])

\* rename old_name new_name
Rename ==
    \E old_name \in RuleNames, new_name \in RuleNames, t \in Clock :
        LET ld == load_analytics(file, t)
        IN Invoke(t, ld, rename(ld.data, old_name, new_name), TRUE,
                  [NoOp EXCEPT !.op = "rename", !.name = old_name, !.new = new_name])

\* The --filter and --sort arguments considered: no filter, filters that
\* match some keys exactly or nearly, and one that normalizes to "".
Filters == {NoFilter, <<"A", "b">>, <<"b">>, <<"!">>}
Sorts == {"last", "first", "name"}

\* read --filter filter --sort sort
ReadWith(filters, sorts) ==
    \E filter \in filters, sort \in sorts, t \in Clock :
        LET ld == load_analytics(file, t)
        IN Invoke(t, ld, read(ld.data, filter, sort), FALSE,
                  [NoOp EXCEPT !.op = "read", !.filter = filter, !.sort = sort])

\* read, and read --filter b
Read == ReadWith({NoFilter, <<"b">>}, {"last"})

Next == Write \/ Rename \/ Read

Spec == Init /\ [][Next]_vars

\* The program started without a file.
InitFresh == InitFrom({Absent}) /\ NoChain /\ OneByOne

SpecFresh == InitFresh /\ [][Next]_vars

\* to_kebab_case alone, on every string over Alphabet of at most MaxLen
\* characters: the function is applied to the string and then to its own
\* result.
Strings == UNION {[1..n -> Alphabet] : n \in 0..MaxLen}

InitKebab == InitFrom({Absent}) /\ OneByOne /\ chain \in {<<s>> : s \in Strings}

Normalize ==
    /\ chain # <<>> /\ Len(chain) < 3
    /\ chain' = Append(chain, to_kebab_case(chain[Len(chain)]))
    /\ UNCHANGED <<file, now, before, loaded, store, last, ops, gone, migrations,
                   prior, writes, report, procvars>>

SpecKebab == InitKebab /\ [][Normalize]_vars

\* The report alone: one read, with every filter and sort, of a store of
\* one or two rules whose records have every combination of timestamps that
\* parse and that do not.
AB == <<"a", "b">>
ABB == <<"a", "b", "b">>

ReportStamps == {p \in (0..2) \X (0..2) : p[1] = BadTime \/ p[2] = BadTime \/ p[1] <= p[2]}

ReportUsages ==
    {Put(Put(Put(EmptyMap, AB, U(c, p[1], p[2])), ABB, U(1, q[1], q[2])), B1, U(1, o, o)) :
        c \in 1..2, p \in ReportStamps, q \in ReportStamps, o \in {BadTime, 1}}
    \cup {Put(EmptyMap, AB, U(c, p[1], p[2])) : c \in 1..2, p \in ReportStamps}
    \cup {Put(EmptyMap, B1, U(1, p[1], p[2])) : p \in ReportStamps}

ReportSeconds ==
    {EmptyMap,
     Put(EmptyMap, "r2", RuleEntry(Put(EmptyMap, B1, U(1, 1, 1)), <<"r3">>)),
     Put(EmptyMap, "r2", RuleEntry(Put(EmptyMap, AB, U(2, BadTime, 2)), <<>>))}

ReportFiles ==
    {Store(Put(rest, "r1", RuleEntry(us, <<>>))) : us \in ReportUsages, rest \in ReportSeconds}

InitReport == InitFrom(ReportFiles) /\ NoChain /\ OneByOne

ReadOnce == ops = 0 /\ ReadWith(Filters, Sorts)

SpecReport == InitReport /\ [][ReadOnce]_vars

\* Two invocations of write or rename side by side. Each loads the file,
\* computes its store and saves it; the save is open(filepath, 'w'), which
\* empties the file, and then json.dump and the close of the file, which
\* put the characters of the store at the start of the file. The stores
\* considered are written to the file at once, when it is closed.
ProcNames == {"r1", "r2"}
ProcAgents == {<<"a">>, <<"b", " ">>}

Commands ==
    {[NoCommand EXCEPT !.op = "write", !.name = f, !.agent = a] :
        f \in ProcNames, a \in ProcAgents}
    \cup {[NoCommand EXCEPT !.op = "rename", !.name = f, !.new = g] :
        f \in ProcNames, g \in ProcNames}

Run(c, data, t) ==
    IF c.op = "write" THEN write(data, c.name, c.agent, t)
    ELSE rename(data, c.name, c.new)

ProcFiles ==
    {Absent,
     Store(Put(EmptyMap, "r1", RuleEntry(Put(EmptyMap, A1, U(1, 1, 1)), <<>>))),
     Store(Put(Put(EmptyMap, "r1", RuleEntry(Put(EmptyMap, A1, U(2, 1, 2)), <<"r3">>)),
               "r2", RuleEntry(Put(EmptyMap, B1, U(1, 1, 1)), <<>>)))}

InitProcs == InitFrom(ProcFiles) /\ NoChain /\ ProcsIdle /\ fsize = JsonSize(file)

seqvars == <<before, loaded, store, last, ops, gone, migrations, prior, writes,
             chain, report>>

\* analytics_data = load_analytics(analytics_file), and the command on it
Begin(p) ==
    /\ pc[p] = "idle"
    /\ \E c \in Commands, t \in Clock :
          LET ld == load_analytics(file, t)
              r == Run(c, ld.data, t)
          IN /\ now' = t
             /\ file' = ld.file
             /\ cmd' = [cmd EXCEPT ![p] = c]
             /\ seen' = [seen EXCEPT ![p] = IF file.kind = "garbage" THEN "partial"
                                            ELSE "whole"]
             /\ result' = [result EXCEPT ![p] = r]
             /\ pc' = [pc EXCEPT ![p] = IF r.status = "ok" THEN "loaded" ELSE "done"]
    /\ UNCHANGED <<seqvars, fsize, closed, early, overlap>>

\* open(filepath, 'w')
OpenFile(p) ==
    /\ pc[p] = "loaded"
    /\ file' = Garbage
    /\ fsize' = 0
    /\ pc' = [pc EXCEPT ![p] = "opened"]
    /\ early' = (early \/ \E q \in Procs : pc[q] = "idle")
    /\ overlap' = (overlap \/ \E q \in Procs : pc[q] = "opened")
    /\ UNCHANGED <<seqvars, now, cmd, seen, result, closed>>

\* json.dump(data, f, indent=2) and the end of the with block: the
\* characters go to the start of the file, and what the file holds beyond
\* them stays.
Dump(p) ==
    /\ pc[p] = "opened"
    /\ LET size == JsonSize(result[p].store)
       IN /\ file' = IF size >= fsize THEN result[p].store ELSE Garbage
          /\ fsize' = IF size >= fsize THEN size ELSE fsize
    /\ pc' = [pc EXCEPT ![p] = "done"]
    /\ closed' = Append(closed, p)
    /\ UNCHANGED <<seqvars, now, cmd, seen, result, early, overlap>>

ProcNext == \E p \in Procs : Begin(p) \/ OpenFile(p) \/ Dump(p)

SpecProcs == InitProcs /\ [][ProcNext]_vars

\* The loader alone, on every file of LoadFiles: read invocations only.
MaxLoads == 2

InitLoad == InitFrom(LoadFiles) /\ NoChain /\ OneByOne

LoadAgain == ops < MaxLoads /\ Read

SpecLoad == InitLoad /\ [][LoadAgain]_vars

\* ----------------------------------------------------------- properties
\* The latest invocation was `op` and ended normally (so it saved).
Did(op) == last.op = op /\ last.status = "ok"

\* sum of usageCount over the agents of a usage dict
RECURSIVE SumCounts(_, _)
SumCounts(usage, keys) ==
    IF keys = {} THEN 0
    ELSE LET k == CHOOSE x \in keys : TRUE
         IN usage[k].usageCount + SumCounts(usage, keys \ {k})

TotalUsage(rules, name) ==
    IF name \in DOMAIN rules
    THEN SumCounts(rules[name].usage, DOMAIN rules[name].usage)
    ELSE 0

HasAgent(rules, name, k) == name \in DOMAIN rules /\ k \in DOMAIN rules[name].usage

CountOf(rules, name, k) ==
    IF HasAgent(rules, name, k) THEN rules[name].usage[k].usageCount ELSE 0

AgentsOf(rules, name) == IF name \in DOMAIN rules THEN DOMAIN rules[name].usage ELSE {}

\* C1: after a successful rename(oldName, newName) with oldName present, the
\* usage of newName totals what oldName and newName (zero if absent) held
\* before the rename, and so does the count of every agent of either rule.
C1_RenamePreservesUsage ==
    Did("rename") =>
        LET old == last.name
            new == last.new
            pre == loaded.rules
            post == store.rules
        IN /\ new \in DOMAIN post
           /\ TotalUsage(post, new) =
                  TotalUsage(pre, old) + (IF new = old THEN 0 ELSE TotalUsage(pre, new))
           /\ \A k \in AgentsOf(pre, old) \cup AgentsOf(pre, new) :
                  CountOf(post, new, k) =
                      CountOf(pre, old, k) + (IF new = old THEN 0 ELSE CountOf(pre, new, k))

\* The same for two different names: it holds.
RenamePreservesUsageOfTwo ==
    last.name # last.new => C1_RenamePreservesUsage

\* C2: in a merge rename (newName already present) an agent of both rules
\* ends with the earlier firstUsed, the sum of the counts and the later
\* lastUsed; an agent of oldName only is copied unchanged and an agent of
\* newName only is left unchanged.
C2_MergeFieldwise ==
    (Did("rename") /\ last.new \in DOMAIN loaded.rules) =>
        LET o == loaded.rules[last.name].usage
            n == loaded.rules[last.new].usage
        IN /\ last.new \in DOMAIN store.rules
           /\ LET m == store.rules[last.new].usage
              IN /\ DOMAIN m = DOMAIN o \cup DOMAIN n
                 /\ \A k \in DOMAIN o \cap DOMAIN n :
                       /\ m[k].usageCount = o[k].usageCount + n[k].usageCount
                       /\ m[k].firstUsed \in {o[k].firstUsed, n[k].firstUsed}
                       /\ m[k].firstUsed <= o[k].firstUsed
                       /\ m[k].firstUsed <= n[k].firstUsed
                       /\ m[k].lastUsed \in {o[k].lastUsed, n[k].lastUsed}
                       /\ m[k].lastUsed >= o[k].lastUsed
                       /\ m[k].lastUsed >= n[k].lastUsed
                 /\ \A k \in DOMAIN o \ DOMAIN n : m[k] = o[k]
                 /\ \A k \in DOMAIN n \ DOMAIN o : m[k] = n[k]

\* The same for two different names: it holds.
MergeFieldwiseOfTwo ==
    last.name # last.new => C2_MergeFieldwise

\* The usage records of a store with a rules dict.
Records(d) ==
    IF d.shape # "dict" THEN {}
    ELSE UNION {{d.rules[f].usage[k] : k \in DOMAIN d.rules[f].usage} : f \in DOMAIN d.rules}

\* C3: firstUsed <= lastUsed for every usage record of the store and of the
\* persisted file, after every load, record and rename.
C3_FirstNotAfterLast ==
    \A u \in Records(store) \cup Records(file) :
        (Parses(u.firstUsed) /\ Parses(u.lastUsed)) => u.firstUsed <= u.lastUsed

\* C4: a record raises usageCount of (filename, normalized agent) by exactly
\* one (from 0 when there was no such record, and then firstUsed = lastUsed =
\* eventTime), sets lastUsed to eventTime and leaves the firstUsed of an
\* existing record as it was; the result is what is persisted.
C4_RecordAddsOne ==
    Did("write") =>
        LET k == to_kebab_case(last.agent)
            pre == loaded.rules
        IN /\ HasAgent(store.rules, last.name, k)
           /\ LET u == store.rules[last.name].usage[k]
              IN /\ u.usageCount = CountOf(pre, last.name, k) + 1
                 /\ u.lastUsed = now
                 /\ u.firstUsed = IF HasAgent(pre, last.name, k)
                                  THEN pre[last.name].usage[k].firstUsed
                                  ELSE now
           /\ file = store

\* Two records at T1 < T2 into an empty store: count 2, firstUsed T1,
\* lastUsed T2, under the normalized key of "A".
C4_Witness ==
    /\ Did("write") /\ last.agent = <<"A">> /\ last.name = "r1"
    /\ before = Store(Put(EmptyMap, "r1",
                          RuleEntry(Put(EmptyMap, A1, U(1, StartTime, StartTime)), <<>>)))
    /\ now > StartTime
    /\ file = Store(Put(EmptyMap, "r1",
                        RuleEntry(Put(EmptyMap, A1, U(2, StartTime, now)), <<>>)))

\* The rules of a source file with the filename each is known by: the
\* filename field in a list, the key in a dict.
SourceRules(d) ==
    IF d.shape = "list"
    THEN {<<d.list[i].filename, d.list[i]>> :
             i \in {j \in 1..Len(d.list) : d.list[j].hasFilename /\ d.list[j].filename # ""}}
    ELSE {<<f, d.rules[f]>> : f \in DOMAIN d.rules}

\* The usage records of a source rule with the agent name of each: the
\* agent field where there is one, else the key of the usage dict.
SourceUsages(r) ==
    IF r.usageIsList
    THEN {<<r.ulist[i].agent, r.ulist[i]>> :
             i \in {j \in 1..Len(r.ulist) : r.ulist[j].hasAgent /\ r.ulist[j].agent # <<>>}}
    ELSE {<<IF r.usage[k].hasAgent THEN r.usage[k].agent ELSE k, r.usage[k]>> :
             k \in DOMAIN r.usage}

\* A stored record carries the fields its source record has.
Carries(u, src) ==
    /\ src.usageCount # NoVal => u.usageCount = src.usageCount
    /\ src.firstUsed # NoVal => u.firstUsed = src.firstUsed
    /\ src.lastUsed # NoVal => u.lastUsed = src.lastUsed

\* The store `rules` holds rule `nr` of the source rules srcs with all its usage
\* records.  Rules of one filename and records of one normalized agent are
\* left aside: only one of them can be stored.
KeepsRule(rules, srcs, nr) ==
    (\A other \in srcs : other[1] = nr[1] => other = nr) =>
        /\ nr[1] \in DOMAIN rules
        /\ \A au \in SourceUsages(nr[2]) :
              (\A other \in SourceUsages(nr[2]) :
                   to_kebab_case(other[1]) = to_kebab_case(au[1]) => other = au) =>
                  /\ to_kebab_case(au[1]) \in DOMAIN rules[nr[1]].usage
                  /\ Carries(rules[nr[1]].usage[to_kebab_case(au[1])], au[2])

\* C5: a load that migrates keeps every rule of the source under its
\* filename and every usage record under its normalized agent with the
\* source's usageCount, firstUsed and lastUsed, whether or not the source
\* embeds the filename and agent fields.
C5_MigrationKeepsHistory ==
    last.migrated =>
        /\ file = loaded
        /\ \A nr \in SourceRules(before) :
              KeepsRule(loaded.rules, SourceRules(before), nr)

\* What the migration does keep: the rules that embed their filename, with
\* the usage records that embed their agent.
EmbeddedRules(d) ==
    {<<nr[2].filename, nr[2]>> :
        nr \in {x \in SourceRules(d) : x[2].hasFilename /\ x[2].filename # ""}}

MigrationKeepsEmbedded ==
    last.migrated =>
        \A nr \in EmbeddedRules(before) :
            (\A au \in SourceUsages(nr[2]) : au[2].hasAgent) =>
                KeepsRule(loaded.rules, EmbeddedRules(before), nr)

\* The canonical form of the spec: rules is a dict, no entry embeds its
\* filename or lacks previousNames, usage is a dict whose records embed no
\* agent.
Canonical(d) ==
    /\ d.kind = "object" /\ d.shape = "dict"
    /\ \A f \in DOMAIN d.rules :
          /\ ~d.rules[f].hasFilename /\ d.rules[f].hasPrev /\ ~d.rules[f].usageIsList
          /\ \A k \in DOMAIN d.rules[f].usage : ~d.rules[f].usage[k].hasAgent

\* C6: a load of a canonical file rewrites nothing and returns the file's
\* store, and so does a load of what a migration wrote: the output of the
\* migration is canonical and the next load leaves it as it is.
C6_MigrationFixedPoint ==
    [][/\ (last.migrated => (Canonical(file) /\ file = loaded))
       /\ ((Canonical(file) \/ last.migrated) =>
              (file' = file /\ loaded' = file /\ ~last'.migrated))]_vars

\* A second load after a load that migrated rules with usage.
C6_Witness ==
    /\ ops = 2 /\ migrations = 1 /\ ~last.migrated /\ before = file
    /\ \E f \in DOMAIN file.rules : DOMAIN file.rules[f].usage # {}

\* C7: whatever the file holds, load returns a store whose rules field is a
\* dict, and the empty store when the file is absent or does not parse.
C7_LoadGivesMapping ==
    last.op # "none" =>
        /\ loaded.kind = "object" /\ loaded.shape = "dict"
        /\ (before.kind \in {"absent", "garbage"} => loaded = EmptyStore)

\* What holds: the store of an absent or unparseable file is empty.
LoadOfNoFileIsEmpty ==
    (last.op # "none" /\ before.kind \in {"absent", "garbage", "nonobject"}) =>
        loaded = EmptyStore

\* The latest invocation was a rename of a name that the loaded rules dict
\* does not hold.
RenameOfUnknown ==
    last.op = "rename" /\ loaded.shape = "dict" /\ last.name \notin DOMAIN loaded.rules

\* C8 as claimed: a rename of an unknown oldName fails with the not-found
\* error and leaves the store in memory and the persisted file as they were
\* before the invocation.
C8_FailedRenameNoMutation ==
    RenameOfUnknown =>
        /\ last.status = "notfound"
        /\ store = loaded
        /\ file = before

\* C8 amended: a rename of an oldName that the loaded rules do not hold
\* fails with the not-found error (or, when the loaded store has no rules
\* dict at all, with an uncaught exception) and changes nothing after the
\* load: the store in memory is the loaded one, and the file is as the load
\* left it, which is the file from before the invocation unless the load
\* migrated it.
C8_FailedRenameNoMutationAfterLoad ==
    (last.op = "rename" /\ (loaded.shape = "dict" => last.name \notin DOMAIN loaded.rules)) =>
        /\ last.status = IF loaded.shape = "dict" THEN "notfound" ELSE "crash"
        /\ store = loaded
        /\ file = IF last.migrated THEN loaded ELSE before

\* A failed rename on a store that the load had to migrate.
C8_Witness ==
    /\ RenameOfUnknown /\ last.status = "notfound" /\ last.migrated
    /\ DOMAIN loaded.rules # {} /\ file # before

\* C9 as claimed: once renamed away, oldName is never again a key of rules.
C9_OldNameNeverReappears ==
    \A n \in gone : file.shape = "dict" => n \notin DOMAIN file.rules

\* C9 amended: when a rename has succeeded, oldName is not a key of rules,
\* in memory and as persisted.  (A later write of oldName, or a rename onto
\* it, makes it a key again.)
C9_OldNameRemovedByRename ==
    Did("rename") => (last.name \notin DOMAIN store.rules /\ file = store)

\* A rename that moved or merged a rule with usage into another name.
C9_Witness ==
    /\ Did("rename") /\ last.name # last.new
    /\ last.new \in DOMAIN file.rules
    /\ DOMAIN file.rules[last.new].usage # {}

\* previousNames of a rule of the loaded store (empty if there is no rule)
LoadedPrev(name) ==
    IF name \in DOMAIN loaded.rules THEN PrevOf(loaded.rules[name]) ELSE <<>>

\* every element of xs is in ys
AllIn(xs, ys) == \A i \in 1..Len(xs) : InSeq(xs[i], ys)

\* xs without the elements of ys, in the order of xs, each once
RECURSIVE Without(_, _)
Without(xs, ys) ==
    IF xs = <<>> THEN <<>>
    ELSE LET n == Len(xs)
             front == Without(SubSeq(xs, 1, n - 1), ys)
         IN IF InSeq(xs[n], ys) \/ InSeq(xs[n], front) THEN front ELSE Append(front, xs[n])

\* C10 as claimed: after a successful rename, move or merge, previousNames
\* of newName holds oldName and all of oldName's previous names, and is
\* newName's former previousNames followed by the new names: oldName first,
\* then oldName's previous names, those already present skipped.
C10_ProvenanceAppended ==
    Did("rename") =>
        /\ last.new \in DOMAIN store.rules
        /\ LET p == store.rules[last.new].previousNames
               np == LoadedPrev(last.new)
               op == LoadedPrev(last.name)
           IN /\ InSeq(last.name, p)
              /\ AllIn(op, p)
              /\ p = np \o Without(<<last.name>> \o op, np)

\* C10 amended: after a successful rename to another name, previousNames of
\* newName holds oldName and all of oldName's previous names.  In the merge
\* case it is newName's former previousNames followed by oldName and then
\* oldName's previous names, those already present skipped; in the move
\* case it is oldName's previousNames followed by oldName, unless oldName
\* is among them.  After a rename of a name to itself the rule is gone.
C10_ProvenanceByCase ==
    Did("rename") =>
        IF last.name = last.new THEN last.new \notin DOMAIN store.rules
        ELSE /\ last.new \in DOMAIN store.rules
             /\ LET p == store.rules[last.new].previousNames
                    np == LoadedPrev(last.new)
                    op == LoadedPrev(last.name)
                IN /\ InSeq(last.name, p)
                   /\ AllIn(op, p)
                   /\ p = IF last.new \in DOMAIN loaded.rules
                          THEN np \o Without(<<last.name>> \o op, np)
                          ELSE op \o Without(<<last.name>>, op)

\* A merge into a rule that has previous names of its own, from a rule that
\* has previous names too.
C10_Witness ==
    /\ Did("rename") /\ last.name # last.new
    /\ last.new \in DOMAIN loaded.rules
    /\ LoadedPrev(last.new) # <<>> /\ LoadedPrev(last.name) # <<>>
    /\ Len(store.rules[last.new].previousNames) > Len(LoadedPrev(last.new)) + 1

\* number of times x occurs in xs
Occurrences(x, xs) == Cardinality({i \in 1..Len(xs) : xs[i] = x})

\* The two latest invocations were rename(A, B) and then rename(B, C), both
\* successful, with A, B, C different.
RenamedTwice ==
    /\ Did("rename") /\ prior # NoRename
    /\ prior.new = last.name
    /\ prior.name # prior.new /\ last.name # last.new /\ prior.name # last.new

\* C11: after rename(A, B) followed by rename(B, C), for different A, B, C
\* and whether or not B and C existed before, previousNames of C holds A and
\* B, each exactly once.
C11_ProvenanceAcrossChain ==
    RenamedTwice =>
        /\ last.new \in DOMAIN file.rules
        /\ Occurrences(prior.name, file.rules[last.new].previousNames) = 1
        /\ Occurrences(last.name, file.rules[last.new].previousNames) = 1

\* A chain that ends in a merge: C existed before the second rename and had
\* usage of its own.
C11_Witness ==
    /\ RenamedTwice
    /\ last.new \in DOMAIN loaded.rules
    /\ DOMAIN loaded.rules[last.new].usage # {}
    /\ Len(file.rules[last.new].previousNames) >= 2

NoDuplicates(xs) == \A i, j \in 1..Len(xs) : xs[i] = xs[j] => i = j

IsPrefix(xs, ys) == Len(xs) <= Len(ys) /\ SubSeq(ys, 1, Len(xs)) = xs

\* C17: after a successful write or rename no rule's previousNames has a
\* duplicate, and the previousNames of every rule key that was live before
\* the operation and is live after it is its former value extended at the
\* end.
C17_PreviousNamesAppendOnly ==
    (Did("write") \/ Did("rename")) =>
        \A f \in DOMAIN file.rules :
            /\ NoDuplicates(file.rules[f].previousNames)
            /\ (f \in DOMAIN loaded.rules =>
                  IsPrefix(PrevOf(loaded.rules[f]), file.rules[f].previousNames))

\* A merge into a rule that had previous names already, which added one.
C17_Witness ==
    /\ Did("rename")
    /\ last.new \in DOMAIN loaded.rules /\ last.new \in DOMAIN file.rules
    /\ LoadedPrev(last.new) # <<>>
    /\ Len(file.rules[last.new].previousNames) > Len(LoadedPrev(last.new))

\* firstUsed of the record of agent k under rule f
FirstOf(rules, f, k) == rules[f].usage[k].firstUsed

\* C18: a successful write or rename keeps every (rule, agent) record of a
\* rule key that is live before and after it; a write leaves the record's
\* firstUsed as it was, and a rename changes it only for the rule merged
\* into, and then to an earlier value.
C18_FirstUsedNeverIncreases ==
    (Did("write") \/ Did("rename")) =>
        \A f \in DOMAIN loaded.rules \cap DOMAIN file.rules :
            \A k \in DOMAIN loaded.rules[f].usage :
                /\ k \in DOMAIN file.rules[f].usage
                /\ \/ FirstOf(file.rules, f, k) = FirstOf(loaded.rules, f, k)
                   \/ /\ Did("rename") /\ f = last.new
                      /\ Parses(FirstOf(file.rules, f, k))
                      /\ Parses(FirstOf(loaded.rules, f, k))
                      /\ FirstOf(file.rules, f, k) < FirstOf(loaded.rules, f, k)

\* A merge that replaced the firstUsed of an agent of the rule merged into.
C18_Witness ==
    /\ Did("rename")
    /\ last.new \in DOMAIN loaded.rules /\ last.new \in DOMAIN file.rules
    /\ \E k \in DOMAIN loaded.rules[last.new].usage :
          FirstOf(file.rules, last.new, k) < FirstOf(loaded.rules, last.new, k)

\* sum of usageCount over all rules and agents
RECURSIVE TotalOfAll(_, _)
TotalOfAll(rules, names) ==
    IF names = {} THEN 0
    ELSE LET f == CHOOSE x \in names : TRUE
         IN TotalUsage(rules, f) + TotalOfAll(rules, names \ {f})

StoredTotal == IF file.kind = "object" THEN TotalOfAll(file.rules, DOMAIN file.rules) ELSE 0

\* C19: starting without a store, after any sequence of writes and renames
\* (renames onto an existing rule and onto the same name included) the sum of
\* usageCount over all rules and agents is the number of writes performed,
\* and every stored usageCount is at least 1.
C19_UsageConserved ==
    /\ StoredTotal = writes
    /\ \A u \in Records(file) : u.usageCount >= 1

\* What holds instead: usage is never invented, only lost.
UsageNeverExceedsWrites ==
    /\ StoredTotal <= writes
    /\ \A u \in Records(file) : u.usageCount >= 1

\* The sum is the number of writes as long as no rule was renamed to itself.
UsageConservedUntilSelfRename ==
    [][(StoredTotal = writes /\ ~(Did("rename")' /\ last'.name = last'.new))
          => StoredTotal' = writes']_vars

\* C20: after a successful rename(oldName, newName), newName equal to
\* oldName included, newName is a live key whose usage has every agent key
\* that oldName's usage had, and all rules other than oldName and newName are
\* as they were.
C20_RenameTargetLive ==
    Did("rename") =>
        /\ file = store
        /\ last.new \in DOMAIN file.rules
        /\ AgentsOf(loaded.rules, last.name) \subseteq AgentsOf(file.rules, last.new)
        /\ \A f \in (DOMAIN loaded.rules \cup DOMAIN file.rules) \ {last.name, last.new} :
              /\ f \in DOMAIN loaded.rules /\ f \in DOMAIN file.rules
              /\ file.rules[f] = loaded.rules[f]

\* The same for two different names: it holds.
RenameTargetLiveOfTwo ==
    last.name # last.new => C20_RenameTargetLive

\* s has c somewhere
Has(s, c) == \E i \in 1..Len(s) : s[i] = c

DoubleHyphen(s) == \E i \in 1..(Len(s) - 1) : s[i] = "-" /\ s[i + 1] = "-"

\* no whitespace, underscore or slash, no two hyphens in a row, no hyphen at
\* either end
KebabShape(s) ==
    /\ \A c \in Separators : ~Has(s, c)
    /\ ~DoubleHyphen(s)
    /\ s # <<>> => (s[1] # "-" /\ s[Len(s)] # "-")

\* C14: to_kebab_case(to_kebab_case(s)) = to_kebab_case(s) for every string
\* s, and to_kebab_case(s) has no uppercase letter, no whitespace, underscore
\* or slash, no two consecutive hyphens and no leading or trailing hyphen.
C14_KebabIdempotent ==
    /\ Len(chain) >= 2 =>
          (KebabShape(chain[2]) /\ \A i \in 1..Len(chain[2]) : ~IsUpper(chain[2][i]))
    /\ Len(chain) = 3 => chain[3] = chain[2]

\* What holds: the function is idempotent, its output has the shape of a
\* key, and no uppercase letter that has a lowercase form is left.
KebabIdempotentAndShaped ==
    /\ Len(chain) >= 2 =>
          (KebabShape(chain[2]) /\ \A i \in 1..Len(chain[2]) : chain[2][i] \notin Upper)
    /\ Len(chain) = 3 => chain[3] = chain[2]

\* Two hyphens in a row, given or left by the earlier steps, were collapsed.
KebabCollapsed ==
    /\ Len(chain) = 3
    /\ DoubleHyphen(RemoveOther(SubRuns(LowerAll(chain[1]), Separators)))
    /\ chain[2] # <<>>

\* Both timestamps of a usage record parse.
Parsed(u) == Parses(u.firstUsed) /\ Parses(u.lastUsed)

\* The store without the usage records that have a timestamp that does
\* not parse.
Purged(d) ==
    Store([f \in DOMAIN d.rules |->
              [d.rules[f] EXCEPT
                  !.usage = [k \in {x \in DOMAIN @ : Parsed(@[x])} |-> @[k]]]])

\* C15: a usage record whose firstUsed or lastUsed does not parse adds
\* nothing to the report: the table is the one the same read gives for the
\* store without such records, so the other records and rules are reported
\* and a rule with no other matching record is left out.
C15_UnparseableSkipped ==
    Did("read") => report = read(Purged(loaded), last.filter, last.sort).report

\* What holds: the dates, the last agent and the presence of every row are
\* those of the store without such records.
Dated(rows) ==
    [i \in 1..Len(rows) |->
        [filename |-> rows[i].filename, last_agent |-> rows[i].last_agent,
         last_used |-> rows[i].last_used, first_used |-> rows[i].first_used]]

UnparseableSkippedForDates ==
    Did("read") => Dated(report) = Dated(read(Purged(loaded), last.filter, last.sort).report)

\* The agents of rule f that the filter of the latest read matches, and
\* those of them whose record is not skipped.
Matching(f) == {k \in DOMAIN loaded.rules[f].usage : is_match(last.filter, k)}

Valid(f) == {k \in Matching(f) : Parsed(loaded.rules[f].usage[k])}

Reported == {report[i].filename : i \in 1..Len(report)}

\* The dates of a row are aggregated over the agents S of its rule.
DatesOver(row, S) ==
    LET usage == loaded.rules[row.filename].usage
    IN /\ S # {}
       /\ row.last_agent \in S
       /\ usage[row.last_agent].lastUsed = row.last_used
       /\ \A k \in S : usage[k].lastUsed <= row.last_used
       /\ \E k \in S : usage[k].firstUsed = row.first_used
       /\ \A k \in S : usage[k].firstUsed >= row.first_used

\* C16: every row of the report aggregates over the matching agents of its
\* rule that are not skipped (all agents without a filter): total_usage is
\* the sum of their counts, last_used their latest lastUsed, last_agent one
\* of them with that lastUsed, first_used their earliest firstUsed; a rule
\* with no matching agent has no row.
C16_ReportAggregatesMatching ==
    Did("read") =>
        /\ \A i \in 1..Len(report) :
              LET f == report[i].filename
              IN /\ DatesOver(report[i], Valid(f))
                 /\ report[i].total_usage = SumCounts(loaded.rules[f].usage, Valid(f))
        /\ \A f \in DOMAIN loaded.rules : Matching(f) = {} => f \notin Reported

\* What holds: the dates are over the matching agents that are not skipped,
\* the total is over all matching agents, and a rule has a row exactly if it
\* has a matching agent that is not skipped.
ReportAggregates ==
    Did("read") =>
        /\ \A i \in 1..Len(report) :
              LET f == report[i].filename
              IN /\ DatesOver(report[i], Valid(f))
                 /\ report[i].total_usage = SumCounts(loaded.rules[f].usage, Matching(f))
        /\ \A f \in DOMAIN loaded.rules : f \in Reported <=> Valid(f) # {}

\* A filtered report of a rule with a nearly matching agent, a matching
\* agent that is skipped and an agent that does not match.
ReportWitness ==
    /\ Did("read") /\ last.filter # NoFilter
    /\ \E f \in Reported :
          /\ Valid(f) # Matching(f)
          /\ \E k \in Valid(f) : k # to_kebab_case(last.filter)
          /\ Matching(f) # DOMAIN loaded.rules[f].usage

\* C12: an invocation that loads the store while another one saves it finds
\* the whole store of before the save or the whole store of after it, never
\* an empty or partly written file.
C12_NoPartialVisible == \A p \in Procs : seen[p] # "partial"

AllDone == \A p \in Procs : pc[p] = "done"

\* What follows from a load of a partly written file: the loader starts
\* from the empty store and its save drops a rule that no command renamed.
HistoryLost ==
    /\ AllDone /\ file.kind = "object"
    /\ \E p \in Procs : seen[p] = "partial" /\ file = result[p].store
    /\ \E f \in DOMAIN before.rules :
          f \notin DOMAIN file.rules /\ \A p \in Procs : cmd[p].op = "write"

\* C13: when two write or rename invocations have both loaded the store
\* before either saved, then after both have finished the file holds the
\* store that the one that saved last computed from the store it loaded.
C13_LastWriterWins ==
    (AllDone /\ Len(closed) = 2 /\ ~early) => file = result[closed[2]].store

\* What holds: the same when the second save starts after the first has
\* ended.
LastWriterWinsWithoutOverlap ==
    (AllDone /\ Len(closed) = 2 /\ ~early /\ ~overlap) => file = result[closed[2]].store

\* Two writes for the same rule and agent that both loaded before either
\* saved, one after the other: the count rose by one.
LostUpdate ==
    /\ AllDone /\ Len(closed) = 2 /\ ~early /\ ~overlap
    /\ cmd["p1"] = cmd["p2"] /\ cmd["p1"].op = "write"
    /\ cmd["p1"].name \in DOMAIN before.rules
    /\ TotalUsage(file.rules, cmd["p1"].name) = TotalUsage(before.rules, cmd["p1"].name) + 1

\* Two writes whose saves overlapped, the shorter store written last: the
\* file holds it followed by the end of the longer one.
MixedSaves ==
    /\ AllDone /\ Len(closed) = 2 /\ ~early /\ overlap
    /\ \A p \in Procs : cmd[p].op = "write"
    /\ file.kind = "garbage"

====
